---- MODULE Spec2Model ----
(***************************************************************************)
(* Model of the zuul client library (src/src/lib.rs): the tail loop        *)
(* builds_tail, the deduplicating scanner builds_stream, the paged fetch   *)
(* builds and the tokio_retry wrapper around the scanner's fetch.          *)
(*                                                                         *)
(* A build is identified with its uuid: the engine reads no other field.   *)
(* The server is the environment: each request is answered by a transport  *)
(* failure or by any array of raw rows no longer than the requested limit. *)
(* The delays themselves (backoff, poll interval) are not modelled, only   *)
(* the order of the steps.                                                 *)
(***************************************************************************)
EXTENDS Naturals, Sequences, FiniteSets

\* ---------------------------------------------------------------- bounds
\* Rows the server sends over the lifetime of one tail stream, all responses
\* together.
MaxRows == 4

\* ------------------------------------------------------ program constants
\* self.builds(offset, 20)
PageLimit == 20
\* self.builds(0, 1)
LatestLimit == 1
\* .take(10): the retry strategy yields ten delays
RetryTake == 10

\* ------------------------------------------------------------ data model
\* Option<String>::None
None == "None"
\* The uuids the server's builds carry.
Uuids == {"A", "B", "C", "X"}
\* A row of the response array that Build::deserialize rejects.
Malformed == "Malformed"
\* serde_json::Value rows of a response array.
RawRows == Uuids \cup {Malformed}

Min(a, b) == IF a < b THEN a ELSE b

Range(s) == {s[i] : i \in 1..Len(s)}

\* Sequences over S of length at most n.
SeqsUpTo(S, n) == UNION {[1..k -> S] : k \in 0..n}

\* Build::deserialize(b): Ok(build) or Err(e), one result per row.
Deserialize(row) ==
    IF row = Malformed THEN [ok |-> FALSE, uuid |-> None]
                       ELSE [ok |-> TRUE, uuid |-> row]

\* Mutant of DecodeAll: the results come out in reverse order.
DecodeAllReversed(resp) ==
    [i \in 1..Len(resp) |-> Deserialize(resp[Len(resp) + 1 - i])]

\* Mutant of DecodeAll: decoding stops at the first row that fails.
DecodeAllUntilFailure(resp) ==
    LET bad == {i \in 1..Len(resp) : resp[i] = Malformed}
        n == IF bad = {} THEN Len(resp)
             ELSE (CHOOSE i \in bad : \A j \in bad : i <= j) - 1
    IN [i \in 1..n |-> Deserialize(resp[i])]

\* Zuul::builds on a successful response: every row decoded on its own.
DecodeAll(resp) == [i \in 1..Len(resp) |-> Deserialize(resp[i])]

\* Outcome of a request that failed below the JSON array: connection error,
\* non-2xx status or a body that is no array (reqwest::Error).
TransportError == [err |-> TRUE, rows |-> <<>>]

\* Outcome of a request the server answered with the array `rows`.
Answer(rows) == [err |-> FALSE, rows |-> rows]

\* ---------------------------------------------------------- root urls
\* A root is a string of tokens: a scheme with its authority (a special
\* scheme, https, or a non-special one, foo), a slash, or a letter.
Special == "https://h"
NonSpecial == "foo://h"
Slash == "/"
Letter == "a"
UrlTokens == {Special, NonSpecial, Slash, Letter}

\* Bound: the length of a root in tokens.
MaxUrlLen == 4

\* The roots a caller may supply: any token first, then slashes and letters.
Roots ==
    {s \in SeqsUpTo(UrlTokens, MaxUrlLen) :
        \A i \in 2..Len(s) : s[i] \in {Slash, Letter}}

NoUrl == [tag |-> "None", scheme |-> "", host |-> 0, path |-> <<>>]
UrlError == [tag |-> "Err", scheme |-> "", host |-> 0, path |-> <<>>]
UrlPanic == [tag |-> "Panic", scheme |-> "", host |-> 0, path |-> <<>>]

\* The number of letters s starts with.
RECURSIVE LeadingLetters(_)
LeadingLetters(s) ==
    IF s # <<>> /\ Head(s) = Letter THEN 1 + LeadingLetters(Tail(s)) ELSE 0

\* Url::parse: a string without a scheme is an error (relative URL without a
\* base); the letters after the authority extend the host, the rest is the
\* path; a special scheme gets the path "/" when the string has none, a
\* non-special scheme keeps the empty path.
UrlParse(s) ==
    IF s = <<>> \/ Head(s) \notin {Special, NonSpecial} THEN UrlError
    ELSE LET rest == Tail(s)
             n == LeadingLetters(rest)
             p == SubSeq(rest, n + 1, Len(rest))
         IN [tag |-> "Ok", scheme |-> Head(s), host |-> n,
             path |-> IF p = <<>> /\ Head(s) = Special THEN <<Slash>> ELSE p]

\* Url::set_path on a URL with an authority: the path starts with a slash.
SetPath(u, p) ==
    [u EXCEPT !.path = IF p # <<>> /\ Head(p) = Slash THEN p
                       ELSE <<Slash>> \o p]

\* Url::to_string: the scheme and authority, then the path.
ToString(u) == <<u.scheme>> \o [i \in 1..u.host |-> Letter] \o u.path

\* parse_root_url: `?` returns the parse error; unwrap() of the last
\* character panics on an empty path; a path not ending in a slash gets one.
parse_root_url(s) ==
    LET u == UrlParse(s)
    IN IF u.tag = "Err" THEN UrlError
       ELSE IF u.path = <<>> THEN UrlPanic
       ELSE IF u.path[Len(u.path)] # Slash
            THEN SetPath(u, Append(u.path, Slash))
       ELSE u

\* No one-shot call made.
NoCall == [skip |-> 0, limit |-> 0, rows |-> <<>>, err |-> FALSE,
           page |-> <<>>]

\* No request issued yet (by this iteration).
NoReq == [skip |-> 0, limit |-> 0, try |-> 0,
          ok |-> FALSE, len |-> 0, bad |-> FALSE]

VARIABLES
    pc,              \* position of the tail task
    panic,           \* why the task panicked ("" while it runs)
    since,           \* builds_tail: the checkpoint
    uuid,            \* builds_tail: the checkpoint bound by `Some(uuid)`
    idx,             \* builds_tail: enumerate() index of the next emission
    offset,          \* builds_stream: skip of the next page
    known_builds,    \* builds_stream: uuids already yielded
    builds,          \* builds_stream: rest of the page being iterated
    retry_strategy,  \* delays the retry strategy has left
    fetched,         \* history: raw rows received in this iteration
    emitted,         \* history: uuids this scanner yielded
    forwarded,       \* history: uuids the consumer received, whole stream
    fwdBase,         \* history: Len(forwarded) when the iteration began
    attempt,         \* history: calls made so far by the running Retry::spawn
    lastReq,         \* history: the last request of this iteration
    nlatest,         \* history: latest-build requests issued
    nrows,           \* history: rows received, whole stream
    other,           \* parity of the steps an unrelated task has taken
    listed,          \* one-shot caller: its call of builds and the result
    api,             \* create_client: the root it is given, as a token string
    url,             \* create_client: the result of parse_root_url(api)
    again,           \* the result of normalising url's text once more
    listing,         \* the server's listing of builds, newest first
    missed,          \* builds unseen and below the offset at some fetch
    lead,            \* rows between the offset and the oldest listed build
    burst            \* builds arrived since the scanner's last request

vars == <<pc, panic, since, uuid, idx, offset, known_builds, builds,
          retry_strategy, fetched, emitted, forwarded, fwdBase, attempt,
          lastReq, nlatest, nrows, other, listed, api, url, again,
          listing, missed, lead, burst>>

\* What the tail and its scanner never write.
unlisted == <<other, listed, api, url, again, listing, lead, burst>>

aux == <<unlisted, missed>>

\* What the server may do with a request of the given limit: fail it, or
\* answer with at most `limit` rows (it may answer with fewer rows than
\* asked for, as the mock of it_stream_builds does).
Outcomes(limit) ==
    {TransportError} \cup
    {Answer(rows) : rows \in SeqsUpTo(RawRows, Min(limit, MaxRows - nrows))}

\* What the consumer received during the current iteration.
IterForwarded == SubSeq(forwarded, fwdBase + 1, Len(forwarded))

\* builds_tail(loop_delay, since): --since is absent or names a build.
Init ==
    /\ pc = "loop"
    /\ panic = ""
    /\ since \in {None, "X"}
    /\ uuid = None
    /\ idx = 0
    /\ offset = 0
    /\ known_builds = {}
    /\ builds = <<>>
    /\ retry_strategy = RetryTake
    /\ fetched = <<>>
    /\ emitted = <<>>
    /\ forwarded = <<>>
    /\ fwdBase = 0
    /\ attempt = 0
    /\ lastReq = NoReq
    /\ nlatest = 0
    /\ nrows = 0
    /\ other = 0
    /\ listed = NoCall
    /\ api = <<>>
    /\ url = NoUrl
    /\ again = NoUrl
    /\ listing = <<>>
    /\ missed = {}
    /\ lead = 0
    /\ burst = 0

\* ------------------------------------------------------------ operations

\* Mutant of ActionFailed: a page with an undecodable row counts as a failed
\* call too, so that the retry wrapper fetches it again.
ActionFailedOrUndecodable(res) == res.err \/ Malformed \in Range(res.rows)

\* Zuul::builds returns Err only when send() or json() fails; Retry::spawn
\* retries exactly when the action returns Err.
ActionFailed(res) == res.err

\* Mutant of NextOffset: the offset moves one row past every page read.
NextOffsetSkipsOne(off, page) ==
    off + Len(page) + (IF page = <<>> THEN 0 ELSE 1)

\* Mutant of NextOffset: the offset advances by the rows that decoded.
NextOffsetDecoded(off, page) ==
    off + Cardinality({i \in 1..Len(page) : page[i].ok})

\* offset += builds.len() as u32 (2^32 rows are far beyond MaxRows, so the
\* width of the counter plays no part here)
NextOffset(off, page) == off + Len(page)

\* Mutant of IsKnown: the known-builds set is never consulted.
IsKnownNever(u) == FALSE

\* known_builds.contains(&build.uuid)
IsKnown(u) == u \in known_builds

\* Mutant of Checkpoint: every emission moves the checkpoint, not the first.
CheckpointEvery(i, old, u) == u

\* if (idx == 0) { since = Some(build.uuid.clone()); }
Checkpoint(i, old, u) == IF i = 0 THEN u ELSE old

\* Mutant of ReachedCheckpoint: the comparison never breaks the loop.
ReachedCheckpointNever(u, cp) == FALSE

\* match &build.uuid[..] == uuid { true => break, false => yield build }
ReachedCheckpoint(u, cp) == u = cp

\* Mutant of LatestBuild: the build popped is not taken as the checkpoint.
LatestBuildIgnored(page) == None

\* if let Some(Ok(build)) = builds.pop() { since = Some(build.uuid) }
LatestBuild(page) ==
    IF page # <<>> /\ page[Len(page)].ok THEN page[Len(page)].uuid ELSE None

\* Mutant of NoLatestBuild: the missing checkpoint goes unnoticed.
NoLatestBuildUnnoticed(cp) == FALSE

\* if let None = since { panic!("Could not get the latest build"); }
NoLatestBuild(cp) == cp = None

\* Mutant of IterationEnd: the loop starts over without the poll wait.
IterationEndNoWait == "loop"

\* Where both arms of the match end: debug!("Now sleeping"), thread::sleep.
IterationEnd == "sleep"

\* The request being issued, with its outcome.
Request(skip, limit, try, res) ==
    [skip |-> skip, limit |-> limit, try |-> try,
     ok |-> ~res.err, len |-> Len(res.rows),
     bad |-> Malformed \in Range(res.rows)]

\* retry_strategy.next() yields a delay: ten of them, then None.
HasDelay(strategy) == strategy > 0

\* Mutant of NextStrategy: a delay taken is not used up (no take(10)).
NextStrategySame(strategy) == strategy

\* The strategy once next() has yielded a delay.
NextStrategy(strategy) == strategy - 1

\* Mutant of AfterFetch: an empty page ends the scanner's stream.
AfterFetchEndsOnEmpty(page) == IF page = <<>> THEN "sleep" ELSE "page"

\* for build_result in builds inside loop: an empty page leads straight to
\* the next request.
AfterFetch(page) == IF page = <<>> THEN "fetch" ELSE "page"

\* The builds of the listing that the scanner has not seen and that lie
\* below its offset: the next request, skip = offset, cannot return them.
BelowOffset ==
    {listing[i] : i \in {j \in 1..Min(offset, Len(listing)) :
                            ~IsKnown(listing[j])}}

\* Some(uuid) => for await (idx, build) in self.builds_stream().enumerate():
\* a fresh scanner, offset 0 and no known build.
StartCatchUp ==
    /\ pc = "loop"
    /\ since # None
    /\ pc' = "fetch"
    /\ uuid' = since
    /\ idx' = 0
    /\ offset' = 0
    /\ known_builds' = {}
    /\ builds' = <<>>
    /\ retry_strategy' = RetryTake
    /\ fetched' = <<>>
    /\ emitted' = <<>>
    /\ fwdBase' = Len(forwarded)
    /\ attempt' = 0
    /\ lastReq' = NoReq
    /\ UNCHANGED <<panic, since, forwarded, nlatest, nrows>>
    /\ UNCHANGED aux

\* None => self.builds(0, 1).await.unwrap(), then pop and the None check.
Bootstrap(res) ==
    /\ pc = "loop"
    /\ since = None
    /\ nlatest' = nlatest + 1
    /\ lastReq' = Request(0, LatestLimit, 0, res)
    /\ fwdBase' = Len(forwarded)
    /\ IF ActionFailed(res)
       THEN /\ pc' = "panicked"
            /\ panic' = "unwrap_bootstrap"
            /\ UNCHANGED <<since, fetched, nrows>>
       ELSE /\ fetched' = res.rows
            /\ nrows' = nrows + Len(res.rows)
            /\ since' = LatestBuild(DecodeAll(res.rows))
            /\ IF NoLatestBuild(since')
               THEN pc' = "panicked" /\ panic' = "no_latest_build"
               ELSE pc' = IterationEnd /\ panic' = panic
    /\ UNCHANGED <<uuid, idx, offset, known_builds, builds, retry_strategy,
                   emitted, forwarded, attempt>>
    /\ UNCHANGED aux

\* Retry::spawn(retry_strategy, action): the action succeeded. The page is
\* kept for the for loop and the offset advances; the strategy is dropped
\* (the next turn of the loop builds a new one).
ScanFetchOk(res) ==
    /\ pc = "fetch"
    /\ ~ActionFailed(res)
    /\ lastReq' = Request(offset, PageLimit, attempt, res)
    /\ nrows' = nrows + Len(res.rows)
    /\ fetched' = fetched \o res.rows
    /\ offset' = NextOffset(offset, DecodeAll(res.rows))
    /\ builds' = DecodeAll(res.rows)
    /\ retry_strategy' = RetryTake
    /\ attempt' = 0
    /\ pc' = AfterFetch(builds')
    /\ missed' = missed \cup BelowOffset
    /\ UNCHANGED <<panic, since, uuid, idx, known_builds, emitted, forwarded,
                   fwdBase, nlatest>>
    /\ UNCHANGED unlisted

\* The action failed and the strategy yields a delay: wait and call again.
ScanRetry(res) ==
    /\ pc = "fetch"
    /\ ActionFailed(res)
    /\ HasDelay(retry_strategy)
    /\ lastReq' = Request(offset, PageLimit, attempt, res)
    /\ attempt' = attempt + 1
    /\ retry_strategy' = NextStrategy(retry_strategy)
    /\ UNCHANGED <<pc, panic, since, uuid, idx, offset, known_builds, builds,
                   fetched, emitted, forwarded, fwdBase, nlatest, nrows>>
    /\ UNCHANGED aux

\* Mutant of ScanGiveUp: the exhausted fetch is swallowed, the iteration
\* ends as if the checkpoint had been reached and the loop goes on.
ScanGiveUpSwallowed(res) ==
    /\ pc = "fetch"
    /\ ActionFailed(res)
    /\ ~HasDelay(retry_strategy)
    /\ lastReq' = Request(offset, PageLimit, attempt, res)
    /\ attempt' = attempt + 1
    /\ pc' = "sleep"
    /\ UNCHANGED <<panic, since, uuid, idx, offset, known_builds, builds,
                   retry_strategy, fetched, emitted, forwarded, fwdBase,
                   nlatest, nrows>>
    /\ UNCHANGED aux

\* The action failed and the strategy is exhausted: Err, and unwrap panics.
ScanGiveUp(res) ==
    /\ pc = "fetch"
    /\ ActionFailed(res)
    /\ ~HasDelay(retry_strategy)
    /\ lastReq' = Request(offset, PageLimit, attempt, res)
    /\ attempt' = attempt + 1
    /\ pc' = "panicked"
    /\ panic' = "unwrap_scan"
    /\ UNCHANGED <<since, uuid, idx, offset, known_builds, builds,
                   retry_strategy, fetched, emitted, forwarded, fwdBase,
                   nlatest, nrows>>
    /\ UNCHANGED aux

\* Where the scanner goes once the head of the page is consumed.
AfterRow == IF Tail(builds) = <<>> THEN "fetch" ELSE "page"

\* Err(e) => error!("Failed to decode build")
ScanDropUndecodable ==
    /\ pc = "page"
    /\ ~Head(builds).ok
    /\ builds' = Tail(builds)
    /\ pc' = AfterRow
    /\ UNCHANGED <<panic, since, uuid, idx, offset, known_builds,
                   retry_strategy, fetched, emitted, forwarded, fwdBase,
                   attempt, lastReq, nlatest, nrows>>
    /\ UNCHANGED aux

\* Ok(build) if known_builds.contains(&build.uuid) => {}
ScanDropKnown ==
    /\ pc = "page"
    /\ Head(builds).ok
    /\ IsKnown(Head(builds).uuid)
    /\ builds' = Tail(builds)
    /\ pc' = AfterRow
    /\ UNCHANGED <<panic, since, uuid, idx, offset, known_builds,
                   retry_strategy, fetched, emitted, forwarded, fwdBase,
                   attempt, lastReq, nlatest, nrows>>
    /\ UNCHANGED aux

\* Ok(build) => insert and yield; the tail's loop body then runs on the
\* build: it moves the checkpoint on the first one, and either breaks
\* (dropping the scanner) or yields the build to the consumer.
ScanYield ==
    /\ pc = "page"
    /\ Head(builds).ok
    /\ ~IsKnown(Head(builds).uuid)
    /\ LET u == Head(builds).uuid IN
       /\ known_builds' = known_builds \cup {u}
       /\ emitted' = Append(emitted, u)
       /\ builds' = Tail(builds)
       /\ since' = Checkpoint(idx, since, u)
       /\ idx' = idx + 1
       /\ IF ReachedCheckpoint(u, uuid)
          THEN pc' = IterationEnd /\ forwarded' = forwarded
          ELSE pc' = AfterRow /\ forwarded' = Append(forwarded, u)
    /\ UNCHANGED <<panic, uuid, offset, retry_strategy, fetched, fwdBase,
                   attempt, lastReq, nlatest, nrows>>
    /\ UNCHANGED aux

\* thread::sleep(loop_delay), then the next turn of the loop.
Sleep ==
    /\ pc = "sleep"
    /\ pc' = "loop"
    /\ UNCHANGED <<panic, since, uuid, idx, offset, known_builds, builds,
                   retry_strategy, fetched, emitted, forwarded, fwdBase,
                   attempt, lastReq, nlatest, nrows>>
    /\ UNCHANGED aux

\* The server's part in each request: any outcome it may produce.
BootstrapStep == \E res \in Outcomes(LatestLimit) : Bootstrap(res)
ScanFetchOkStep == \E res \in Outcomes(PageLimit) : ScanFetchOk(res)
ScanRetryStep == \E res \in Outcomes(PageLimit) : ScanRetry(res)
ScanGiveUpStep == \E res \in Outcomes(PageLimit) : ScanGiveUp(res)

Next ==
    \/ StartCatchUp
    \/ BootstrapStep
    \/ ScanFetchOkStep
    \/ ScanRetryStep
    \/ ScanGiveUpStep
    \/ ScanDropUndecodable
    \/ ScanDropKnown
    \/ ScanYield
    \/ Sleep

Spec == Init /\ [][Next]_vars

\* ------------------------------------------------- the executor thread
\* The stream is polled on an executor thread that also runs other tasks. A
\* task leaves the thread to the others only where it awaits something that
\* is pending: the latest-build request (line 77) and the retried page fetch
\* with its backoff delays (line 102). std::thread::sleep (line 88) is no
\* await: it returns only when the delay is over, the thread held.
AtAwait == pc = "fetch" \/ (pc = "loop" /\ since = None)

\* A step of an unrelated task scheduled on the same thread.
OtherStep ==
    /\ AtAwait
    /\ other' = 1 - other
    /\ UNCHANGED <<pc, panic, since, uuid, idx, offset, known_builds, builds,
                   retry_strategy, fetched, emitted, forwarded, fwdBase,
                   attempt, lastReq, nlatest, nrows, listed, api, url,
                   again, listing, missed, lead, burst>>

NextExecutor == Next \/ OtherStep

SpecExecutor == Init /\ [][NextExecutor]_vars

\* ------------------------------------------------- the one-shot listing
\* A caller of Zuul::builds(skip, limit) outside the tail: one request, and
\* the result is Err(reqwest::Error) or Ok(one result per row).
InitList ==
    /\ pc = "list"
    /\ panic = ""
    /\ since = None
    /\ uuid = None
    /\ idx = 0
    /\ offset = 0
    /\ known_builds = {}
    /\ builds = <<>>
    /\ retry_strategy = RetryTake
    /\ fetched = <<>>
    /\ emitted = <<>>
    /\ forwarded = <<>>
    /\ fwdBase = 0
    /\ attempt = 0
    /\ lastReq = NoReq
    /\ nlatest = 0
    /\ nrows = 0
    /\ other = 0
    /\ listed = NoCall
    /\ api = <<>>
    /\ url = NoUrl
    /\ again = NoUrl
    /\ listing = <<>>
    /\ missed = {}
    /\ lead = 0
    /\ burst = 0

ListBuilds(skip, limit, res) ==
    /\ pc = "list"
    /\ pc' = "listed"
    /\ listed' = [skip |-> skip, limit |-> limit, rows |-> res.rows,
                  err |-> ActionFailed(res),
                  page |-> IF ActionFailed(res) THEN <<>>
                           ELSE DecodeAll(res.rows)]
    /\ UNCHANGED <<panic, since, uuid, idx, offset, known_builds, builds,
                   retry_strategy, fetched, emitted, forwarded, fwdBase,
                   attempt, lastReq, nlatest, nrows, other, api, url,
                   again, listing, missed, lead, burst>>

ListBuildsStep ==
    /\ pc = "list"
    /\ \E skip \in 0..MaxRows, limit \in 1..MaxRows :
         \E res \in Outcomes(limit) : ListBuilds(skip, limit, res)

SpecList == InitList /\ [][ListBuildsStep]_vars

\* ------------------------------------------- a scanner against a listing
\* The server keeps a listing, newest build first, and new builds arrive at
\* its head while one scanner reads it; every request succeeds and every
\* row decodes.

\* Bound: the builds that arrive while the scanner runs.
MaxInserts == 3

\* The builds that may arrive, in the order of their arrival.
NewBuilds == <<"n1", "n2", "n3", "n4", "n5", "n6">>

\* The builds listed before, newest first: one more than a page holds.
OldBuilds ==
    <<"o21", "o20", "o19", "o18", "o17", "o16", "o15", "o14", "o13", "o12",
      "o11", "o10", "o09", "o08", "o07", "o06", "o05", "o04", "o03", "o02",
      "o01">>

\* The last n rows of s.
Suffix(s, n) == SubSeq(s, Len(s) - n + 1, Len(s))

\* The listing when the scanner starts: none, one or two builds, or a page
\* and one build more.
InitialListings == {Suffix(OldBuilds, n) : n \in {0, 1, 2, PageLimit + 1}}

\* Mutant of Page: the skip parameter is left out of the query.
PageFromHead(rows, skip, limit) == SubSeq(rows, 1, Min(Len(rows), limit))

\* The server's answer to GET builds?complete=true&skip=..&limit=..
Page(rows, skip, limit) ==
    SubSeq(rows, skip + 1, Min(Len(rows), skip + limit))

\* The number of new builds already in the listing.
Arrived == Cardinality(Range(listing) \cap Range(NewBuilds))

\* The position of build b in the listing, counted from 0 like skip.
Position(b) == (CHOOSE i \in 1..Len(listing) : listing[i] = b) - 1

InitShift ==
    /\ pc = "fetch"
    /\ panic = ""
    /\ listing \in InitialListings
    /\ since \in {"X"} \cup
                 (IF listing = <<>> THEN {}
                  ELSE {listing[1], listing[Len(listing)]})
    /\ uuid = since
    /\ idx = 0
    /\ offset = 0
    /\ known_builds = {}
    /\ builds = <<>>
    /\ retry_strategy = RetryTake
    /\ fetched = <<>>
    /\ emitted = <<>>
    /\ forwarded = <<>>
    /\ fwdBase = 0
    /\ attempt = 0
    /\ lastReq = NoReq
    /\ nlatest = 0
    /\ nrows = 0
    /\ other = 0
    /\ listed = NoCall
    /\ api = <<>>
    /\ url = NoUrl
    /\ again = NoUrl
    /\ missed = {}
    /\ lead = 0
    /\ burst = 0

\* self.builds(offset, 20) answered from the listing as it is now.
ShiftFetch ==
    /\ pc = "fetch"
    /\ ScanFetchOk(Answer(Page(listing, offset, PageLimit)))

\* A new build completes: the server puts it at the head of the listing.
HeadInsert ==
    /\ Arrived < MaxInserts
    /\ listing' = <<NewBuilds[Arrived + 1]>> \o listing
    /\ UNCHANGED <<pc, panic, since, uuid, idx, offset, known_builds, builds,
                   retry_strategy, fetched, emitted, forwarded, fwdBase,
                   attempt, lastReq, nlatest, nrows, other, listed, api, url,
                   again, missed, lead, burst>>

NextShift == ShiftFetch \/ ScanDropKnown \/ ScanYield \/ HeadInsert

SpecShift == InitShift /\ [][NextShift]_vars

\* ------------------------------------- a scanner chasing the oldest build
\* The same scanner and server, followed without a bound on the builds that
\* arrive: of the listing only the oldest build is kept, by its distance
\* from the scanner's offset (lead = its position - offset), and of the
\* arrivals only how many there were since the last request. The rows
\* between the offset and that build are fetched and dropped or emitted
\* like any row; they are left out of the page kept here.

\* The oldest build of the listing.
Tracked == "o01"

\* Bound: the distance at which the arrivals stop pushing the build away.
MaxLead == 45

\* The rows a request at the offset returns: a full page while the listing
\* holds one, else the rows down to the oldest build, none beyond it.
PageLen(l) == IF l >= PageLimit THEN PageLimit ELSE IF l >= 0 THEN l + 1 ELSE 0

\* The page of n rows, as decoded results.
RowsRead(n) == [i \in 1..n |-> Deserialize(Tracked)]

InitChase ==
    /\ pc = "fetch"
    /\ panic = ""
    /\ since \in {"X", Tracked}
    /\ uuid = since
    /\ idx = 0
    /\ offset = 0
    /\ known_builds = {}
    /\ builds = <<>>
    /\ retry_strategy = RetryTake
    /\ fetched = <<>>
    /\ emitted = <<>>
    /\ forwarded = <<>>
    /\ fwdBase = 0
    /\ attempt = 0
    /\ lastReq = NoReq
    /\ nlatest = 0
    /\ nrows = 0
    /\ other = 0
    /\ listed = NoCall
    /\ api = <<>>
    /\ url = NoUrl
    /\ again = NoUrl
    /\ listing = <<>>
    /\ missed = {}
    /\ lead \in {0, 1, PageLimit}
    /\ burst = 0

\* self.builds(offset, 20) and offset += builds.len(): the offset moves by
\* the rows returned, and the oldest build is in the page when it lies
\* within that many rows of the offset.
ChaseFetch ==
    /\ pc = "fetch"
    /\ ~IsKnown(Tracked)
    /\ LET n == PageLen(lead)
           moved == NextOffset(0, RowsRead(n))
       IN IF 0 <= lead /\ lead < n /\ lead < moved
          THEN /\ builds' = <<Deserialize(Tracked)>>
               /\ pc' = "page"
               /\ lead' = lead
          ELSE /\ builds' = <<>>
               /\ pc' = "fetch"
               /\ lead' = lead - moved
    /\ burst' = 0
    /\ UNCHANGED <<panic, since, uuid, idx, offset, known_builds,
                   retry_strategy, fetched, emitted, forwarded, fwdBase,
                   attempt, lastReq, nlatest, nrows, other, listed, api, url,
                   again, listing, missed>>

\* A new build arrives at the head: every listed build moves down one row.
ChaseInsert ==
    /\ ~IsKnown(Tracked)
    /\ lead < MaxLead
    /\ lead' = lead + 1
    /\ burst' = Min(burst + 1, PageLimit)
    /\ UNCHANGED <<pc, panic, since, uuid, idx, offset, known_builds, builds,
                   retry_strategy, fetched, emitted, forwarded, fwdBase,
                   attempt, lastReq, nlatest, nrows, other, listed, api, url,
                   again, listing, missed>>

NextChase == ChaseFetch \/ ScanYield \/ ChaseInsert

SpecChase == InitChase /\ [][NextChase]_vars

\* The consumer keeps pulling: the scanner's steps are taken when enabled.
FairChase ==
    /\ SpecChase
    /\ WF_vars(ChaseFetch)
    /\ WF_vars(ScanYield)

\* ------------------------------------------------------- client creation
InitUrl ==
    /\ pc = "create"
    /\ panic = ""
    /\ since = None
    /\ uuid = None
    /\ idx = 0
    /\ offset = 0
    /\ known_builds = {}
    /\ builds = <<>>
    /\ retry_strategy = RetryTake
    /\ fetched = <<>>
    /\ emitted = <<>>
    /\ forwarded = <<>>
    /\ fwdBase = 0
    /\ attempt = 0
    /\ lastReq = NoReq
    /\ nlatest = 0
    /\ nrows = 0
    /\ other = 0
    /\ listed = NoCall
    /\ api \in Roots
    /\ url = NoUrl
    /\ again = NoUrl
    /\ listing = <<>>
    /\ missed = {}
    /\ lead = 0
    /\ burst = 0

urlUnchanged ==
    UNCHANGED <<since, uuid, idx, offset, known_builds, builds,
                retry_strategy, fetched, emitted, forwarded, fwdBase,
                attempt, lastReq, nlatest, nrows, other, listed, api,
                listing, missed, lead, burst>>

\* create_client(api): the client holds the normalised root, or the caller
\* gets the parse error, or the unwrap panics.
CreateClient ==
    /\ pc = "create"
    /\ url' = parse_root_url(api)
    /\ IF url'.tag = "Panic"
       THEN pc' = "panicked" /\ panic' = "unwrap_last_char"
       ELSE pc' = "created" /\ panic' = panic
    /\ again' = again
    /\ urlUnchanged

\* The text of the client's root is given to create_client again.
CreateAgain ==
    /\ pc = "created"
    /\ url.tag = "Ok"
    /\ again' = parse_root_url(ToString(url))
    /\ IF again'.tag = "Panic"
       THEN pc' = "panicked" /\ panic' = "unwrap_last_char"
       ELSE pc' = "recreated" /\ panic' = panic
    /\ url' = url
    /\ urlUnchanged

NextUrl == CreateClient \/ CreateAgain

SpecUrl == InitUrl /\ [][NextUrl]_vars

\* ------------------------------------------------------------ properties

NoDup(s) == \A i, j \in 1..Len(s) : i # j => s[i] # s[j]

\* s with every element that occurred earlier removed (first occurrence kept).
RECURSIVE Dedup(_)
Dedup(s) ==
    IF s = <<>> THEN <<>>
    ELSE LET front == Dedup(SubSeq(s, 1, Len(s) - 1))
             last == s[Len(s)]
         IN IF last \in Range(front) THEN front ELSE Append(front, last)

\* The uuids of the rows that decode, in order.
DecodedUuids(rows) == SelectSeq(rows, LAMBDA r : r # Malformed)

\* Index of the first occurrence of x in s, 0 when there is none.
FirstIndex(s, x) ==
    IF x \in Range(s)
    THEN CHOOSE i \in 1..Len(s) : s[i] = x /\ \A j \in 1..(i - 1) : s[j] # x
    ELSE 0

\* A catch-up iteration is running or has just ended (its scanner's state is
\* still there); uuid is None before the first one.
CatchingUp == uuid # None

\* The iteration is over: the task sleeps or is back at the top of the loop.
IterationDone == pc \in {"sleep", "loop"}

\* The rows of this scanner's pages that its for loop has gone through.
Consumed == SubSeq(fetched, 1, Len(fetched) - Len(builds))

\* C1: within one scanner instance no uuid is emitted twice, whatever pages
\* the server returns (pages that repeat or reorder earlier rows included).
C1_NoUuidEmittedTwice == NoDup(emitted)

\* C1 witness: the scanner went through a row whose uuid an earlier row of
\* its pages already carried, and emitted that uuid.
C1_Witness ==
    /\ CatchingUp
    /\ \E i, j \in 1..Len(Consumed) :
         i < j /\ Consumed[i] = Consumed[j] /\ Consumed[i] \in Range(emitted)

\* C2: over the whole lifetime of one tail stream every uuid is forwarded to
\* the consumer at most once.
C2_ForwardedAtMostOnce == NoDup(forwarded)

\* C3: in a catch-up iteration with checkpoint X whose scanner emits
\* e1, e2, ... with ek the first emission equal to X, exactly e1..e(k-1) are
\* forwarded in that order, the scanner is consumed no further, the iteration
\* ends only there, and the checkpoint is then e1 (X itself when k = 1).
C3_CatchUpForwardsUpToCheckpoint ==
    CatchingUp =>
        LET k == FirstIndex(emitted, uuid) IN
        /\ IterForwarded = IF k = 0 THEN emitted ELSE SubSeq(emitted, 1, k - 1)
        /\ since = IF emitted = <<>> THEN uuid ELSE emitted[1]
        /\ k # 0 => k = Len(emitted) /\ IterationDone
        /\ IterationDone => k # 0

\* C3 witness: the pages hold A, B, X, C; A and B were forwarded, the
\* iteration stopped at X with C unread, and the checkpoint is A.
C3_Witness ==
    /\ uuid = "X"
    /\ fetched = <<"A", "B", "X", "C">>
    /\ emitted = <<"A", "B", "X">>
    /\ IterForwarded = <<"A", "B">>
    /\ since = "A"
    /\ pc = "sleep"

\* C4: started with since = None, when the latest-build request returns
\* build L the first iteration has issued that one request (skip 0, limit 1,
\* one attempt) and no other, has forwarded nothing, has set the checkpoint
\* to L's uuid and goes to sleep.
C4_BootstrapSetsCheckpoint ==
    (~CatchingUp /\ lastReq.ok /\ fetched # <<>>
        /\ fetched[Len(fetched)] # Malformed) =>
        /\ nlatest = 1
        /\ lastReq.skip = 0 /\ lastReq.limit = 1 /\ lastReq.try = 0
        /\ nrows = Len(fetched)
        /\ forwarded = <<>>
        /\ since = fetched[Len(fetched)]
        /\ IterationDone

\* C4 witness: the latest-build request returned build A and the task sleeps.
C4_Witness ==
    /\ ~CatchingUp
    /\ fetched = <<"A">>
    /\ since = "A"
    /\ pc = "sleep"

\* C5: the skip of a scanner's next request is the number of raw rows of the
\* pages it fetched so far (undecodable and already known rows included),
\* every request of a scanner asks for skip = that offset and limit = 20.
C5_OffsetIsRawRowCount ==
    CatchingUp =>
        /\ offset = Len(fetched)
        /\ lastReq # NoReq =>
             /\ lastReq.limit = 20
             /\ lastReq.skip + lastReq.len = offset

\* C5 witness: a scanner fetched an undecodable row and a row it already
\* knew, and its offset counts both.
C5_Witness ==
    /\ CatchingUp
    /\ builds = <<>>
    /\ Malformed \in Range(fetched)
    /\ ~NoDup(DecodedUuids(fetched))
    /\ offset = Len(fetched)
    /\ offset >= Len(emitted) + 2

\* C6: what a scanner has emitted is the decoded rows it went through, in
\* fetch order and in page order, with later occurrences of a uuid removed;
\* the rows left are the rest of the last page in the server's order; while
\* the checkpoint has not been emitted the tail forwards all of it.
C6_EmittedIsDedupOfPages ==
    CatchingUp =>
        /\ emitted = Dedup(DecodedUuids(Consumed))
        /\ \A i \in 1..Len(builds) :
             LET row == fetched[Len(Consumed) + i] IN
             /\ builds[i].ok <=> row # Malformed
             /\ builds[i].ok => builds[i].uuid = row
        /\ uuid \notin Range(emitted) => IterForwarded = emitted

\* C6 witness: sliding pages [A, B] at skip 0 and [B, C] at skip 2 under a
\* checkpoint X that is in neither: A, B, C were forwarded.
C6_Witness ==
    /\ uuid = "X"
    /\ fetched = <<"A", "B", "B", "C">>
    /\ lastReq.skip = 2 /\ lastReq.len = 2
    /\ builds = <<>>
    /\ IterForwarded = <<"A", "B", "C">>

\* C7: one Retry::spawn of a scanner calls the fetch at most eleven times
\* (one call and one more per delay of the ten the strategy yields); when
\* the eleventh fails the fetch fails (the unwrap panics), and it fails
\* only then.
C7_RetryIsBounded ==
    /\ attempt <= 10 + 1
    /\ (CatchingUp /\ lastReq # NoReq /\ ~lastReq.ok /\ lastReq.try = 10)
           => pc = "panicked" /\ panic = "unwrap_scan"
    /\ panic = "unwrap_scan" => ~lastReq.ok /\ lastReq.try = 10

\* C7 witness: eleven calls in a row failed and the scanner's fetch gave up.
C7_Witness ==
    /\ pc = "panicked"
    /\ panic = "unwrap_scan"
    /\ attempt = 11
    /\ ~lastReq.ok

\* C8: a page fetched successfully that holds an undecodable row is not
\* fetched again: after it the retry wrapper is done, the offset is past the
\* page, and the next request of the scanner is a first attempt at that
\* next offset.
C8_DecodeFailureIsNotRetried ==
    /\ [](CatchingUp /\ lastReq.ok /\ lastReq.bad =>
            /\ attempt = 0
            /\ retry_strategy = RetryTake
            /\ offset = lastReq.skip + lastReq.len)
    /\ [][(CatchingUp /\ lastReq.ok /\ lastReq.bad
             /\ lastReq' # lastReq /\ lastReq' # NoReq) =>
            /\ lastReq'.skip = lastReq.skip + lastReq.len
            /\ lastReq'.try = 0]_vars

\* C8 witness: a request went out at an offset past a page with an
\* undecodable row.
C8_Witness ==
    /\ CatchingUp
    /\ lastReq # NoReq
    /\ lastReq.skip >= 1
    /\ Malformed \in Range(SubSeq(fetched, 1, lastReq.skip))

\* C9: the latest-build fetch of Bootstrapping goes through the retry
\* wrapper: a transport failure of it is fatal only once the attempt budget
\* is used up.
C9_BootstrapFetchIsRetried ==
    panic = "unwrap_bootstrap" => lastReq.try = RetryTake

\* C10: no decode failure ends the tail: whenever the task has stopped, its
\* last request failed at transport level or returned an empty listing.
C10_DecodeFailureNeverFatal ==
    pc = "panicked" => ~lastReq.ok \/ lastReq.len = 0

\* The task has stopped: nothing it owns changes any more.
Stopped == UNCHANGED <<pc, panic, since, forwarded, lastReq, nlatest, nrows>>

\* C11: started with since = None, when the latest-build request returns an
\* empty listing the tail aborts: that one request was issued, nothing was
\* forwarded, no checkpoint is set, and from then on the task neither
\* sleeps, nor enters Catching-up, nor issues a request.
C11_EmptyBootstrapAborts ==
    /\ []((~CatchingUp /\ lastReq.ok /\ lastReq.len = 0) =>
            /\ pc = "panicked" /\ panic = "no_latest_build"
            /\ nlatest = 1
            /\ since = None
            /\ forwarded = <<>>)
    /\ [][panic = "no_latest_build" => Stopped]_vars

\* C11 witness: the latest-build request was answered with an empty array
\* and the task has panicked.
C11_Witness ==
    /\ pc = "panicked"
    /\ panic = "no_latest_build"
    /\ lastReq.ok /\ lastReq.len = 0 /\ lastReq.limit = 1

\* C12: when a catch-up's page fetch has failed on its last attempt the task
\* stops (the unwrap panics), and from then on nothing is forwarded, no
\* request is issued and the loop neither sleeps nor starts an iteration.
C12_ExhaustedFetchEndsTail ==
    /\ []((CatchingUp /\ lastReq # NoReq /\ ~lastReq.ok
             /\ lastReq.try = RetryTake) => pc = "panicked")
    /\ [][pc = "panicked" /\ panic = "unwrap_scan" => Stopped]_vars

\* C12 witness: a catch-up that had forwarded a build lost its next page
\* fetch on the eleventh attempt.
C12_Witness ==
    /\ CatchingUp
    /\ pc = "panicked"
    /\ panic = "unwrap_scan"
    /\ lastReq.try = RetryTake
    /\ IterForwarded # <<>>

\* C13: while the tail waits for the poll interval between two iterations,
\* an unrelated task on the same executor thread can take a step.
C13_PollWaitIsCooperative == pc = "sleep" => ENABLED OtherStep

\* C14: an iteration that completes (the latest build found, or the
\* checkpoint reached) is followed by the poll wait, the wait by the next
\* turn of the loop, and no turn after the first starts without it; the
\* latest-build request is issued at most once, as the first thing of a
\* stream started with since = None; a checkpoint that is set stays set.
C14_SleepBetweenIterations ==
    /\ [](nlatest <= 1)
    /\ [][(nlatest' # nlatest) =>
              (since = None /\ nlatest = 0 /\ lastReq = NoReq /\ ~CatchingUp)]_vars
    /\ [][since # None => since' # None]_vars
    /\ [][pc = "sleep" => pc' = "loop"]_vars
    /\ [][pc' = "loop" => pc = "sleep"]_vars
    /\ [][pc = "loop" => pc' \in {"fetch", "sleep", "panicked"}]_vars
    /\ [][(pc \in {"page", "fetch"}) =>
              (pc' \in {"page", "fetch", "sleep", "panicked"})]_vars

\* C14 witness: a stream that found the latest build, slept, and is now in
\* its second catch-up after a second sleep.
C14_Witness ==
    /\ nlatest = 1
    /\ CatchingUp
    /\ uuid # since
    /\ fwdBase > 0
    /\ pc = "fetch"

\* C15: a successful builds(skip, limit) returns one result per row of the
\* response, in the response's order: slot i is the decoded build when row i
\* decodes and an error otherwise, whatever the other rows are.
C15_OneResultPerRow ==
    (pc = "listed" /\ ~listed.err) =>
        /\ Len(listed.page) = Len(listed.rows)
        /\ \A i \in 1..Len(listed.rows) :
             IF listed.rows[i] = Malformed
             THEN ~listed.page[i].ok
             ELSE listed.page[i].ok /\ listed.page[i].uuid = listed.rows[i]

\* C15 witness: the array A, malformed, B was listed.
C15_Witness ==
    /\ pc = "listed"
    /\ ~listed.err
    /\ listed.rows = <<"A", Malformed, "B">>

\* C16: every root that parses as a URL is normalised to a URL whose path
\* ends with a slash: unchanged when the parsed path already ends with one,
\* with one slash appended otherwise; normalising the result again changes
\* nothing; a root that does not parse yields the error and nothing panics.
C16_RootUrlNormalised ==
    /\ url.tag # "None" =>
          LET u == UrlParse(api)
          IN /\ url.tag # "Panic"
             /\ u.tag = "Err" => url = UrlError
             /\ u.tag = "Ok" =>
                   /\ url.tag = "Ok"
                   /\ url.scheme = u.scheme /\ url.host = u.host
                   /\ url.path # <<>> /\ url.path[Len(url.path)] = Slash
                   /\ url.path =
                        IF u.path # <<>> /\ u.path[Len(u.path)] = Slash
                        THEN u.path ELSE Append(u.path, Slash)
    /\ again.tag # "None" => again = url

\* C17: in a catch-up iteration, once the scanner has emitted the build
\* whose uuid is the checkpoint the scanner is abandoned (the iteration is
\* at the sleep or past it) and issues no further request; a request is
\* only issued when the page before it is used up; and the first request
\* after the scanner is abandoned is the skip 0 fetch of the next iteration,
\* which starts only from the sleep.
C17_NoFetchPastCheckpoint ==
    /\ []((CatchingUp /\ uuid \in Range(emitted)) => IterationDone)
    /\ [](pc = "fetch" => builds = <<>>)
    /\ [][(CatchingUp /\ uuid \in Range(emitted)) =>
              (lastReq' = lastReq \/ (lastReq' = NoReq /\ pc = "loop"))]_vars
    /\ [][(lastReq' # lastReq /\ lastReq' # NoReq) =>
              (pc = "fetch" \/ (pc = "loop" /\ since = None))]_vars
    /\ [][(CatchingUp /\ lastReq = NoReq /\ lastReq' # NoReq) =>
              (lastReq'.skip = 0 /\ offset = 0 /\ emitted = <<>>)]_vars

\* C17 witness: the checkpoint X came second in a page of three; the third
\* row is left unread and the iteration sleeps.
C17_Witness ==
    /\ CatchingUp
    /\ pc = "sleep"
    /\ emitted = <<"A", "X">>
    /\ uuid = "X"
    /\ builds # <<>>
    /\ lastReq.len = 3

\* The builds of the page just fetched.
PageUuids(page) == {page[i].uuid : i \in 1..Len(page)}

C19_ListedBuildIsReached ==
    /\ <>(Tracked \in Range(emitted))
    /\ (uuid = Tracked) ~> (pc = "sleep")

\* C19 amended: the same, provided that from some request on fewer builds
\* than a page holds arrive between two requests.
C19_ReachedUnlessOutrun ==
    <>[](burst < PageLimit) =>
        /\ <>(Tracked \in Range(emitted))
        /\ (uuid = Tracked) ~> (pc = "sleep")

\* C19 witness: the arrivals kept the oldest build, the checkpoint, at the
\* far end of a page; the scanner has emitted it and the iteration sleeps.
C19_Witness ==
    /\ pc = "sleep"
    /\ uuid = Tracked
    /\ emitted = <<Tracked>>
    /\ lead = PageLimit - 1

\* C20: a catch-up iteration reaches the sleep only by the step in which
\* the scanner emits the build whose uuid is the checkpoint; until then the
\* tail forwards every build the scanner emits; and a request that returns
\* an empty page leaves the scanner at the next request with the same
\* offset and a fresh retry strategy (no delay taken), a request it can
\* always issue.
C20_OnlyTheCheckpointEndsCatchUp ==
    /\ []((CatchingUp /\ pc = "sleep") =>
             (emitted # <<>> /\ emitted[Len(emitted)] = uuid))
    /\ []((CatchingUp /\ uuid \notin Range(emitted)) =>
             (pc \in {"fetch", "page", "panicked"} /\ IterForwarded = emitted))
    /\ [][(CatchingUp /\ pc \in {"fetch", "page"} /\ pc' = "sleep") =>
              emitted' = Append(emitted, uuid)]_vars
    /\ [][(CatchingUp /\ pc = "fetch" /\ lastReq'.ok /\ lastReq'.len = 0) =>
              (/\ pc' = "fetch"
               /\ offset' = offset
               /\ lastReq'.skip = offset
               /\ attempt' = 0
               /\ retry_strategy' = RetryTake)]_vars
    /\ []((CatchingUp /\ pc = "fetch") => ENABLED ScanFetchOkStep)

\* C20 witness: the checkpoint X is not listed; the scanner has emitted A
\* and B, both forwarded, and its request at offset 2 came back empty.
C20_Witness ==
    /\ CatchingUp
    /\ uuid = "X"
    /\ pc = "fetch"
    /\ emitted = <<"A", "B">>
    /\ IterForwarded = <<"A", "B">>
    /\ offset = 2
    /\ lastReq.ok /\ lastReq.len = 0 /\ lastReq.skip = 2

====
